---- MODULE Spec2Model ----
(***************************************************************************)
(* A model of chess.py: the bullet-chess dashboard.  The script fetches    *)
(* two months of games (fetch_bullet_games), aggregates them per UTC day   *)
(* (extract_daily_stats), builds a bar/line figure and an HTML table, and  *)
(* writes index.html.                                                      *)
(*                                                                         *)
(* Representation choices:                                                 *)
(*  - a JSON object is a record; a key that is absent is the value Missing;*)
(*  - a string that the code lower-cases is a sequence of characters;      *)
(*  - a date is its proleptic day number since 1970-01-01 (dates compare   *)
(*    as their day numbers do);                                            *)
(*  - a float64 is [m, e], the value m * 2^e, m a natural number of at     *)
(*    most 53 bits held in three limbs of LimbBits bits; the win rate in   *)
(*    a row is the integer n of tenths, standing for the float64 nearest   *)
(*    n / 10 that numpy's round returns.                                   *)
(***************************************************************************)
EXTENDS Integers, Sequences, FiniteSets, TLC

\* ------------------------------------------------------------------------
\* float64 arithmetic, as far as line 43 needs it
\* ------------------------------------------------------------------------

\* Width of one limb of a mantissa and width of a float64 mantissa.  A natural
\* number below 2^(3 * LimbBits) is held as <<low, middle, high>> limbs.
LimbBits == 20
MantBits == 53

Base == 2 ^ LimbBits

\* The element of a set of one element.  {F(v) : v \in {e}} names the value of
\* e as v, so that F reads a value that was computed once.
The(S) == CHOOSE v \in S : TRUE

BigZero == <<0, 0, 0>>

\* Bit i (0 = least significant) of x.
Bit(x, i) ==
    IF i < 0 \/ i >= 3 * LimbBits THEN 0
    ELSE (x[(i \div LimbBits) + 1] \div (2 ^ (i % LimbBits))) % 2

\* Number of significant bits of a natural number n below Base.
RECURSIVE Log2(_)
Log2(n) == IF n = 0 THEN 0 ELSE 1 + Log2(n \div 2)

\* Number of significant bits of x.
BitLen(x) ==
    IF x[3] # 0 THEN 2 * LimbBits + Log2(x[3])
    ELSE IF x[2] # 0 THEN LimbBits + Log2(x[2])
    ELSE Log2(x[1])

\* Limb j of x, zero beyond the highest.
Limb(x, j) == IF j >= 1 /\ j <= 3 THEN x[j] ELSE 0

\* floor(x / 2^s)
Shr(x, s) ==
    LET a == s \div LimbBits
        b == s % LimbBits
        lo == 2 ^ b
        hi == 2 ^ (LimbBits - b)
        y1 == Limb(x, 1 + a)
        y2 == Limb(x, 2 + a)
        y3 == Limb(x, 3 + a)
    IN  <<(y1 \div lo) + (y2 % lo) * hi, (y2 \div lo) + (y3 % lo) * hi, y3 \div lo>>

\* x * c for a natural c small enough that a limb times c fits an integer.
MulSmall(x, c) ==
    LET t1 == x[1] * c
        t2 == x[2] * c + (t1 \div Base)
        t3 == x[3] * c + (t2 \div Base)
    IN  <<t1 % Base, t2 % Base, t3>>

\* x + 1
Inc(x) ==
    IF x[1] + 1 < Base THEN <<x[1] + 1, x[2], x[3]>>
    ELSE IF x[2] + 1 < Base THEN <<0, x[2] + 1, x[3]>>
    ELSE <<0, 0, x[3] + 1>>

\* Whether x has a bit set below bit t.
Sticky(x, t) ==
    \E j \in 1..3 :
        \/ LimbBits * j <= t /\ x[j] # 0
        \/ /\ LimbBits * (j - 1) < t
           /\ t < LimbBits * j
           /\ x[j] % (2 ^ (t - LimbBits * (j - 1))) # 0

\* x / 2^s rounded to the nearest integer, ties to even (the IEEE 754 default).
RoundShift(x, s) ==
    LET half == s >= 1 /\ Bit(x, s - 1) = 1
    IN  The({IF half /\ (Sticky(x, s - 1) \/ f[1] % 2 = 1) THEN Inc(f) ELSE f :
               f \in {Shr(x, s)}})

\* The float64 nearest x * 2^e.
Normalise(x, e) ==
    The({IF L <= MantBits THEN [m |-> x, e |-> e]
         ELSE [m |-> RoundShift(x, L - MantBits), e |-> e + (L - MantBits)] :
           L \in {BitLen(x)}})

\* Smallest k with w * 2^k >= g, for 0 < w <= g.
RECURSIVE LeadShift(_, _)
LeadShift(w, g) == IF w >= g THEN 0 ELSE 1 + LeadShift(2 * w, g)

\* The quotient digits of a / g for g <= a < 2 * g: the leading bit and
\* MantBits - 1 bits more, as limbs, and the remainder left.
Quotient(a, g) ==
    LET topbits == (MantBits - 1) - 2 * LimbBits
        r0 == a % g
        d3 == (r0 * (2 ^ topbits)) \div g
        r1 == (r0 * (2 ^ topbits)) % g
        d2 == (r1 * Base) \div g
        r2 == (r1 * Base) % g
        d1 == (r2 * Base) \div g
        r3 == (r2 * Base) % g
    IN  [q |-> <<d1, d2, (a \div g) * (2 ^ topbits) + d3>>, r |-> r3]

\* Series / Series on int64 columns: the float64 nearest w / g (true division),
\* by long division, the last bit rounded to nearest, ties to even.
FDiv(w, g) ==
    IF w = 0 THEN [m |-> BigZero, e |-> 0]
    ELSE The({The({[m |-> IF 2 * d.r > g \/ (2 * d.r = g /\ d.q[1] % 2 = 1)
                          THEN Inc(d.q) ELSE d.q,
                    e |-> 0 - (k + (MantBits - 1))] :
                      d \in {Quotient(w * (2 ^ k), g)}}) :
                k \in {LeadShift(w, g)}})

\* float64 * small integer constant
FMul(f, c) == The({Normalise(x, f.e) : x \in {MulSmall(f.m, c)}})

\* numpy rint: nearest integer, ties to even, of a float64 below Base.
Rint(f) ==
    IF f.e >= 0 THEN f.m[1] * (2 ^ f.e)
    ELSE RoundShift(f.m, 0 - f.e)[1]

\* (Wins / Games * 100).round(1), in tenths: numpy rounds to one decimal as
\* rint(x * 10) / 10.  Each intermediate result is a float64 of its own: the
\* quotient q, the percentage p, the scaled percentage t.
WinRate(w, g) ==
    The({Rint(t) : t \in
          {FMul(p, 10) : p \in
            {FMul(q, 100) : q \in
              {FDiv(c[1], c[2]) : c \in {<<w, g>>}}}}})

\* ------------------------------------------------------------------------
\* Strings the code lower-cases, and the configuration (lines 7-9)
\* ------------------------------------------------------------------------

UpperCase == <<"A", "B", "C", "D", "E", "F", "G", "H", "I", "J", "K", "L", "M",
               "N", "O", "P", "Q", "R", "S", "T", "U", "V", "W", "X", "Y", "Z">>
LowerCase == <<"a", "b", "c", "d", "e", "f", "g", "h", "i", "j", "k", "l", "m",
               "n", "o", "p", "q", "r", "s", "t", "u", "v", "w", "x", "y", "z">>

LowerChar(c) ==
    IF \E i \in 1..Len(UpperCase) : UpperCase[i] = c
    THEN LowerCase[CHOOSE i \in 1..Len(UpperCase) : UpperCase[i] = c]
    ELSE c

\* str.lower()
Lower(str) == [i \in 1..Len(str) |-> LowerChar(str[i])]

\* username = "cand5d".lower()
username == Lower(<<"c", "a", "n", "d", "5", "d">>)

\* ------------------------------------------------------------------------
\* Inputs: what the chess.com API can answer
\* ------------------------------------------------------------------------

\* Upper bound on the games one monthly archive holds in a run of the pipeline.
MaxMonthGames == 1
\* Upper bound on the games of one day in the runs that start from a filled
\* daily mapping of one row, and of several rows.
MaxDayGames == 80
MaxRowGames == 2

Me == <<"c", "a", "n", "d", "5", "d">>
MeMixedCase == <<"C", "a", "n", "d", "5", "D">>
Rival == <<"R", "i", "v", "a", "l">>
Stranger == <<"m", "a", "x">>

\* 2024-01-01 00:00:00, 2024-01-01 23:59:59, 2024-01-02 00:00:00 and
\* 2024-01-03 12:00:00 UTC.
EndTimes == {1704067200, 1704153599, 1704153600, 1704283200}

Player(name, result) == [username |-> name, result |-> result]

Game(t, w, b) == [end_time |-> t, white |-> w, black |-> b, time_class |-> "bullet"]

\* Well-formed games of the tracked player, as white and as black.
GoodGames ==
    { Game(1704153599, Player(Me, "win"), Player(Rival, "checkmated")),
      Game(1704153600, Player(MeMixedCase, "checkmated"), Player(Rival, "win")),
      Game(1704283200, Player(Rival, "timeout"), Player(Me, "win")),
      Game(1704067200, Player(Rival, "win"), Player(MeMixedCase, "resigned")) }

\* Games on which a lookup of lines 26-28 raises.
BrokenGames ==
    { [white |-> Player(Me, "win"), black |-> Player(Rival, "checkmated"),
       time_class |-> "bullet"],
      [end_time |-> 1704067200, black |-> Player(Me, "win"), time_class |-> "bullet"],
      [end_time |-> 1704067200, white |-> [result |-> "win"],
       black |-> Player(Rival, "checkmated"), time_class |-> "bullet"],
      [end_time |-> 1704153600, white |-> [username |-> Me],
       black |-> Player(Rival, "checkmated"), time_class |-> "bullet"],
      [end_time |-> 1704153600, white |-> Player(Rival, "win"), time_class |-> "bullet"] }

\* Games with a field missing, or without the tracked player, on which no lookup
\* of lines 26-28 raises.
OddGames ==
    { Game(1704153600, Player(Rival, "checkmated"), Player(Stranger, "win")),
      [end_time |-> 1704067200, white |-> Player(Me, "win"), time_class |-> "bullet"] }

\* Games of another time class, and one without a time class.
OtherClassGames ==
    { [end_time |-> 1704067200, white |-> Player(Me, "win"),
       black |-> Player(Rival, "checkmated"), time_class |-> "blitz"],
      [end_time |-> 1704067200, white |-> Player(Me, "win"),
       black |-> Player(Rival, "checkmated")] }

Games == GoodGames \cup BrokenGames \cup OddGames \cup OtherClassGames

SeqsUpTo(S, n) == UNION {[1..k -> S] : k \in 0..n}

\* The outcome of requests.get: an exception, or a response with a status code
\* and, when its body parses as JSON, the parsed body.
Outcomes ==
    { [error |-> "ConnectionError"] }
    \cup { [status_code |-> 200, json |-> [games |-> gs]] : gs \in SeqsUpTo(Games, MaxMonthGames) }
    \cup { [status_code |-> 200, json |-> [message |-> "no games"]],
           [status_code |-> 200],
           [status_code |-> 404, json |-> [message |-> "not found"]],
           [status_code |-> 500,
            json |-> [games |-> <<Game(1704153599, Player(Me, "win"), Player(Rival, "checkmated"))>>]],
           [status_code |-> 429] }

\* ------------------------------------------------------------------------
\* fetch_bullet_games (lines 11-20)
\* ------------------------------------------------------------------------

\* What a call gives its caller: a value, or an exception that propagates.
Returned(v) == [raised |-> FALSE, value |-> v]
Raised == [raised |-> TRUE, value |-> <<>>]

\* g.get("time_class") == "bullet"
IsBullet(g) == "time_class" \in DOMAIN g /\ g.time_class = "bullet"

\* Whether a statement of the try block (lines 14-17) raises.
FetchRaises(res) ==
    \/ "error" \in DOMAIN res          \* requests.get raises
    \/ res.status_code >= 400           \* res.raise_for_status()
    \/ "json" \notin DOMAIN res         \* res.json() raises

\* fetch_bullet_games without res.raise_for_status(): the body of an error
\* response is read like any other.
fetch_bullet_games_unchecked_status(res) ==
    IF "error" \in DOMAIN res \/ "json" \notin DOMAIN res THEN Returned(<<>>)
    ELSE LET games == IF "games" \in DOMAIN res.json THEN res.json.games ELSE <<>>
         IN  Returned(SelectSeq(games, IsBullet))

\* fetch_bullet_games without its try/except: what raises propagates.
fetch_bullet_games_no_except(res) ==
    IF FetchRaises(res) THEN Raised
    ELSE LET games == IF "games" \in DOMAIN res.json THEN res.json.games ELSE <<>>
         IN  Returned(SelectSeq(games, IsBullet))

fetch_bullet_games(res) ==
    IF FetchRaises(res) THEN Returned(<<>>)
    ELSE LET games == IF "games" \in DOMAIN res.json THEN res.json.games ELSE <<>>
         IN  Returned(SelectSeq(games, IsBullet))

\* ------------------------------------------------------------------------
\* extract_daily_stats (lines 22-45)
\* ------------------------------------------------------------------------

SecondsPerDay == 86400

\* datetime.utcfromtimestamp(t).date(), as the day number since 1970-01-01.
UtcDate(t) == t \div SecondsPerDay

\* daily is a dict, which keeps insertion order: a sequence of
\* [date, games, wins], one entry per key.
HasDate(daily, date) == \E i \in 1..Len(daily) : daily[i].date = date

\* daily.setdefault(date, {"games": 0, "wins": 0})
SetDefault(daily, date) ==
    IF HasDate(daily, date) THEN daily
    ELSE Append(daily, [date |-> date, games |-> 0, wins |-> 0])

\* daily[date]["games"] += 1; daily[date]["wins"] += win
Count(daily, date, win) ==
    [i \in 1..Len(daily) |->
        IF daily[i].date = date
        THEN [daily[i] EXCEPT !.games = @ + 1, !.wins = @ + win]
        ELSE daily[i]]

\* Whether a statement of the try block (lines 26-28) raises on game g.
GameRaises(g) ==
    \/ "end_time" \notin DOMAIN g
    \/ "white" \notin DOMAIN g
    \/ "username" \notin DOMAIN g.white
    \/ LET color == IF Lower(g.white.username) = username THEN "white" ELSE "black"
       IN  color \notin DOMAIN g \/ "result" \notin DOMAIN g[color]

\* The loop body with setdefault moved up, ahead of the lookups of lines 27-28.
ProcessGame_SetDefaultFirst(daily, g) ==
    IF "end_time" \notin DOMAIN g THEN daily
    ELSE IF GameRaises(g) THEN SetDefault(daily, UtcDate(g.end_time))
    ELSE LET date == UtcDate(g.end_time)
             color == IF Lower(g.white.username) = username THEN "white" ELSE "black"
             win == IF g[color].result = "win" THEN 1 ELSE 0
         IN  Count(SetDefault(daily, date), date, win)

\* One pass of the loop body (lines 25-34).
ProcessGame(daily, g) ==
    IF GameRaises(g) THEN daily
    ELSE LET date == UtcDate(g.end_time)
             color == IF Lower(g.white.username) = username THEN "white" ELSE "black"
             result == g[color].result
             win == IF result = "win" THEN 1 ELSE 0
         IN  Count(SetDefault(daily, date), date, win)

\* sorted(daily.items()): ascending by key (the keys are distinct, so the
\* values never decide).
RECURSIVE Sorted(_)
Sorted(daily) ==
    IF daily = <<>> THEN <<>>
    ELSE LET k == CHOOSE i \in 1..Len(daily) :
                    \A j \in 1..Len(daily) : daily[i].date <= daily[j].date
             rest == [i \in 1..(Len(daily) - 1) |-> IF i < k THEN daily[i] ELSE daily[i + 1]]
         IN  <<daily[k]>> \o Sorted(rest)

FlagThreshold == 6

\* lambda x: "Overuse" if x > 6 else "OK" (line 44; the labels without their emoji)
Flag(x) == IF x > FlagThreshold THEN "Overuse" ELSE "OK"

\* The data frame built from daily.items() without sorted().
Frame_Unsorted(daily) ==
    [i \in 1..Len(daily) |->
        [Date |-> daily[i].date, Games |-> daily[i].games, Wins |-> daily[i].wins,
         WinRate |-> WinRate(daily[i].wins, daily[i].games),
         Flag |-> Flag(daily[i].games)]]

\* Lines 36-45: the data frame, a sequence of rows.
Frame(daily) ==
    The({[i \in 1..Len(rows) |->
            [Date |-> rows[i].date, Games |-> rows[i].games, Wins |-> rows[i].wins,
             WinRate |-> WinRate(rows[i].wins, rows[i].games),
             Flag |-> Flag(rows[i].games)]] :
          rows \in {Sorted(daily)}})

\* ------------------------------------------------------------------------
\* Months (lines 48-50)
\* ------------------------------------------------------------------------

this_month_of(today) == <<today.year, today.month>>

\* The previous month without the January case.
last_month_of_no_rollover(today) == <<today.year, today.month - 1>>

last_month_of(today) ==
    IF today.month = 1 THEN <<today.year - 1, 12>> ELSE <<today.year, today.month - 1>>

\* ------------------------------------------------------------------------
\* Plot and table (lines 57-93)
\* ------------------------------------------------------------------------

ColorThreshold == 6

\* The bar colour with >= in place of >.
MarkerColor_AtThreshold(x) == IF x >= ColorThreshold THEN "red" ELSE "green"

\* 'red' if x > 6 else 'green' (line 63)
MarkerColor(x) == IF x > ColorThreshold THEN "red" ELSE "green"

Column(df, name) == [i \in 1..Len(df) |-> df[i][name]]

\* Lines 58-86.
Figure(df) ==
    IF df # <<>>
    THEN Returned(
           [title |-> "Bullet Games and Win Rate per Day",
            bar |-> [x |-> Column(df, "Date"), y |-> Column(df, "Games"),
                     marker_color |-> [i \in 1..Len(df) |-> MarkerColor(df[i].Games)],
                     text |-> Column(df, "Games")],
            scatter |-> [x |-> Column(df, "Date"), y |-> Column(df, "WinRate")]])
    ELSE Returned([title |-> "No Bullet Games Found"])

\* df.sort_values('Date', ascending=False)
RECURSIVE SortValuesDescending(_)
SortValuesDescending(df) ==
    IF df = <<>> THEN <<>>
    ELSE LET k == CHOOSE i \in 1..Len(df) :
                    /\ \A j \in 1..Len(df) : df[i].Date >= df[j].Date
                    /\ \A j \in 1..(i - 1) : df[j].Date # df[i].Date
             rest == [i \in 1..(Len(df) - 1) |-> IF i < k THEN df[i] ELSE df[i + 1]]
         IN  <<df[k]>> \o SortValuesDescending(rest)

\* The table without the test of df.empty: sort_values('Date') raises KeyError
\* on a frame that has no columns.
TableHtml_SortsEmpty(df) ==
    IF df # <<>> THEN Returned([rows |-> SortValuesDescending(df)]) ELSE Raised

\* Lines 89-93: the table's rows as to_html(index=False) writes them, top to
\* bottom, or the placeholder paragraph.
TableHtml(df) ==
    IF df # <<>> THEN Returned([rows |-> SortValuesDescending(df)])
    ELSE Returned([placeholder |-> "<p>No data available.</p>"])

\* Lines 95-116.
HtmlContent(fig, table_html) ==
    [title |-> "Bullet Chess Dashboard", chart |-> fig, table |-> table_html]

\* ------------------------------------------------------------------------
\* The script, top to bottom
\* ------------------------------------------------------------------------

VARIABLES
    pc,             \* the statement the script is at
    today,          \* datetime.utcnow().date(): [year, month]
    this_month,     \* <<year, month>>
    last_month,     \* <<year, month>>
    res_last,       \* what requests.get got for last_month
    res_this,       \* what requests.get got for this_month
    fetched_last,   \* the left operand of line 53
    games_combined,
    gi,             \* extract_daily_stats: index of the next game of the loop
    daily,          \* extract_daily_stats: the dict
    df,
    fig,
    table_html,
    file,           \* index.html
    steps           \* history: the steps completed, in order

vars == <<pc, today, this_month, last_month, res_last, res_this, fetched_last,
          games_combined, gi, daily, df, fig, table_html, file, steps>>

Unset == [unset |-> TRUE]
NoMonth == <<0, 0>>
NoFile == [exists |-> FALSE]

\* The day on which a run starts: a January, where the previous month lies in
\* the previous year.  What a fetch answers does not depend on the month asked
\* for; MonthSpec below runs lines 48-50 on every month of ten years.
RunDays == {[year |-> 2025, month |-> 1]}

Start(day) ==
    /\ pc = "months"
    /\ today = day
    /\ this_month = NoMonth
    /\ last_month = NoMonth
    /\ res_last = Unset
    /\ res_this = Unset
    /\ fetched_last = <<>>
    /\ games_combined = <<>>
    /\ gi = 1
    /\ daily = <<>>
    /\ df = <<>>
    /\ fig = Unset
    /\ table_html = Unset
    /\ file = NoFile
    /\ steps = <<>>

Init == \E day \in RunDays : Start(day)

\* Lines 48-50.
DynamicMonths ==
    /\ pc = "months"
    /\ this_month' = this_month_of(today)
    /\ last_month' = last_month_of(today)
    /\ pc' = "fetch_last"
    /\ UNCHANGED <<today, res_last, res_this, fetched_last, games_combined, gi,
                   daily, df, fig, table_html, file, steps>>

\* Line 53, left operand: fetch_bullet_games(username, *last_month).
FetchLast ==
    /\ pc = "fetch_last"
    /\ \E res \in Outcomes :
         LET r == fetch_bullet_games(res)
         IN  /\ res_last' = res
             /\ IF r.raised
                THEN /\ pc' = "aborted"
                     /\ UNCHANGED <<fetched_last, steps>>
                ELSE /\ pc' = "fetch_this"
                     /\ fetched_last' = r.value
                     /\ steps' = Append(steps, "fetch_last")
    /\ UNCHANGED <<today, this_month, last_month, res_this, games_combined, gi,
                   daily, df, fig, table_html, file>>

\* Line 53, right operand and the concatenation; line 55 enters
\* extract_daily_stats, which starts with an empty dict (line 23).
FetchThis ==
    /\ pc = "fetch_this"
    /\ \E res \in Outcomes :
         LET r == fetch_bullet_games(res)
         IN  /\ res_this' = res
             /\ IF r.raised
                THEN /\ pc' = "aborted"
                     /\ UNCHANGED <<games_combined, steps>>
                ELSE /\ pc' = "extract"
                     /\ games_combined' = fetched_last \o r.value
                     /\ steps' = Append(steps, "fetch_this")
    /\ gi' = 1
    /\ daily' = <<>>
    /\ UNCHANGED <<today, this_month, last_month, res_last, fetched_last,
                   df, fig, table_html, file>>

\* Lines 24-34: one game of the loop.
ExtractGame ==
    /\ pc = "extract"
    /\ gi <= Len(games_combined)
    /\ daily' = ProcessGame(daily, games_combined[gi])
    /\ gi' = gi + 1
    /\ UNCHANGED <<pc, today, this_month, last_month, res_last, res_this,
                   fetched_last, games_combined, df, fig, table_html, file, steps>>

\* Lines 36-45 and the assignment of line 55.
BuildFrame ==
    /\ pc = "extract"
    /\ gi > Len(games_combined)
    /\ df' = Frame(daily)
    /\ pc' = "plot"
    /\ steps' = Append(steps, "aggregate")
    /\ UNCHANGED <<today, this_month, last_month, res_last, res_this, fetched_last,
                   games_combined, gi, daily, fig, table_html, file>>

\* Lines 57-86.
Plot ==
    /\ pc = "plot"
    /\ LET r == Figure(df)
       IN  IF r.raised
           THEN pc' = "aborted" /\ UNCHANGED <<fig, steps>>
           ELSE pc' = "table" /\ fig' = r.value /\ steps' = Append(steps, "plot")
    /\ UNCHANGED <<today, this_month, last_month, res_last, res_this, fetched_last,
                   games_combined, gi, daily, df, table_html, file>>

\* Lines 88-93.
GenerateTable ==
    /\ pc = "table"
    /\ LET r == TableHtml(df)
       IN  IF r.raised
           THEN pc' = "aborted" /\ UNCHANGED <<table_html, steps>>
           ELSE pc' = "write" /\ table_html' = r.value /\ steps' = Append(steps, "table")
    /\ UNCHANGED <<today, this_month, last_month, res_last, res_this, fetched_last,
                   games_combined, gi, daily, df, fig, file>>

\* Lines 95-119: open("index.html", "w") succeeds and the document is
\* written, or it raises and the script ends with the exception.
WriteFile ==
    /\ pc = "write"
    /\ steps' = Append(steps, "write")
    /\ \E ok \in BOOLEAN :
         IF ok
         THEN /\ file' = [exists |-> TRUE, content |-> HtmlContent(fig, table_html)]
              /\ pc' = "done"
         ELSE /\ pc' = "aborted"
              /\ UNCHANGED file
    /\ UNCHANGED <<today, this_month, last_month, res_last, res_this, fetched_last,
                   games_combined, gi, daily, df, fig, table_html>>

Next ==
    \/ DynamicMonths
    \/ FetchLast
    \/ FetchThis
    \/ ExtractGame
    \/ BuildFrame
    \/ Plot
    \/ GenerateTable
    \/ WriteFile

Spec == Init /\ [][Next]_vars

\* The script runs to its end: no statement waits on another thread.
LiveSpec == Spec /\ WF_vars(Next)

\* ------------------------------------------------------------------------
\* The months alone: every day a run can start on
\* ------------------------------------------------------------------------

AllDays == {[year |-> y, month |-> m] : y \in 2020..2029, m \in 1..12}

MonthInit == \E day \in AllDays : Start(day)

MonthNext == DynamicMonths

MonthSpec == MonthInit /\ [][MonthNext]_vars

\* ------------------------------------------------------------------------
\* The script from the end of the loop of extract_daily_stats, with the dict
\* the loop has filled from a month of well-formed games
\* ------------------------------------------------------------------------

Dates == {UtcDate(t) : t \in EndTimes}

RowChoices ==
    {[date |-> d, games |-> g, wins |-> w] :
        d \in Dates, g \in 1..MaxRowGames, w \in 0..MaxRowGames}

\* Dicts of up to one row per date, in every insertion order.
SeveralRows ==
    {d \in SeqsUpTo({r \in RowChoices : r.wins <= r.games}, Cardinality(Dates)) :
        \A i, j \in 1..Len(d) : i # j => d[i].date # d[j].date}

\* Dicts of one row, of up to MaxDayGames games.
OneRow ==
    {<<[date |-> UtcDate(1704067200), games |-> c[1], wins |-> c[2]]>> :
        c \in {c \in (1..MaxDayGames) \X (0..MaxDayGames) : c[2] <= c[1]}}

\* n games the tracked player played as white at noon of a date, all won or
\* all lost.
RECURSIVE Repeat(_, _)
Repeat(g, n) == IF n = 0 THEN <<>> ELSE <<g>> \o Repeat(g, n - 1)

GamesOfRow(row) ==
    LET noon == row.date * SecondsPerDay + (SecondsPerDay \div 2)
    IN  Repeat(Game(noon, Player(Me, "win"), Player(Rival, "resigned")), row.wins)
        \o Repeat(Game(noon, Player(Me, "resigned"), Player(Rival, "win")),
                  row.games - row.wins)

\* A month of games from which the loop fills the dict d.
RECURSIVE GamesFor(_)
GamesFor(d) == IF d = <<>> THEN <<>> ELSE GamesOfRow(Head(d)) \o GamesFor(Tail(d))

RowStart(d) ==
    LET day == [year |-> 2025, month |-> 1]
        gs == GamesFor(d)
    IN  /\ pc = "extract"
        /\ today = day
        /\ this_month = this_month_of(day)
        /\ last_month = last_month_of(day)
        /\ res_last = [status_code |-> 200, json |-> [games |-> gs]]
        /\ res_this = [status_code |-> 200, json |-> [games |-> <<>>]]
        /\ fetched_last = gs
        /\ games_combined = gs
        /\ gi = Len(gs) + 1
        /\ daily = d
        /\ df = <<>>
        /\ fig = Unset
        /\ table_html = Unset
        /\ file = NoFile
        /\ steps = <<"fetch_last", "fetch_this">>

RowInit == \E d \in OneRow \cup SeveralRows : RowStart(d)

RowNext ==
    \/ BuildFrame
    \/ Plot
    \/ GenerateTable
    \/ WriteFile

RowSpec == RowInit /\ [][RowNext]_vars

\* The dict after the loop has passed the first n games.
RECURSIVE Loop(_, _)
Loop(games, n) == IF n = 0 THEN <<>> ELSE ProcessGame(Loop(games, n - 1), games[n])

\* Every state of RowSpec before the frame is built is a state of the script:
\* the loop fills daily from games_combined.
RowStartReachable == pc = "extract" => Loop(games_combined, Len(games_combined)) = daily

\* ------------------------------------------------------------------------
\* Properties
\* ------------------------------------------------------------------------

AfterFetches == pc \notin {"months", "fetch_last", "fetch_this"}
FrameBuilt == "aggregate" \in {steps[i] : i \in 1..Len(steps)}
FigureBuilt == "title" \in DOMAIN fig
TableBuilt == table_html # Unset
WriteAttempted == steps # <<>> /\ steps[Len(steps)] = "write"

\* C1: every row of the daily mapping, after each game of the loop, and every
\* row of the data frame has games >= 1 and 0 <= wins <= games.
RowCountsInvariant ==
    /\ \A i \in 1..Len(daily) :
         daily[i].games >= 1 /\ 0 <= daily[i].wins /\ daily[i].wins <= daily[i].games
    /\ \A i \in 1..Len(df) :
         df[i].Games >= 1 /\ 0 <= df[i].Wins /\ df[i].Wins <= df[i].Games

\* The loop has passed a game that raised and a game that was won.
RowCountsWitness ==
    /\ pc = "extract"
    /\ gi > Len(games_combined)
    /\ \E i \in 1..Len(games_combined) : GameRaises(games_combined[i])
    /\ daily # <<>>
    /\ \A i \in 1..Len(daily) : daily[i].games = 1 /\ daily[i].wins = 1

\* A monthly fetch fails: no connection, a status outside 200..299, or a body
\* that is not JSON.
FetchFailed(res) ==
    \/ "error" \in DOMAIN res
    \/ res.status_code < 200
    \/ res.status_code > 299
    \/ "json" \notin DOMAIN res

\* The bullet games of a month that was fetched.
BulletGamesOf(res) ==
    LET all == IF "games" \in DOMAIN res.json THEN res.json.games ELSE <<>>
        keep(g) == "time_class" \in DOMAIN g /\ g.time_class = "bullet"
    IN  SelectSeq(all, keep)

\* C2: a failed monthly fetch returns the empty sequence and raises nothing;
\* when exactly one of the two fails, the games aggregated are the bullet games
\* of the other month.
FetchFailureIsEmpty ==
    /\ pc \notin {"months", "fetch_last"} =>
         /\ FetchFailed(res_last) => fetched_last = <<>>
         /\ ~FetchFailed(res_last) => fetched_last = BulletGamesOf(res_last)
    /\ AfterFetches =>
         /\ FetchFailed(res_last) /\ FetchFailed(res_this) => games_combined = <<>>
         /\ FetchFailed(res_last) /\ ~FetchFailed(res_this) =>
              games_combined = BulletGamesOf(res_this)
         /\ ~FetchFailed(res_last) /\ FetchFailed(res_this) =>
              games_combined = BulletGamesOf(res_last)
    /\ pc = "aborted" => WriteAttempted

\* The first fetch got an error status with games in its body, the second
\* succeeded, and the games of the second are being aggregated.
FetchFailureWitness ==
    /\ pc = "extract"
    /\ "status_code" \in DOMAIN res_last
    /\ res_last.status_code = 500
    /\ ~FetchFailed(res_this)
    /\ games_combined # <<>>
    /\ games_combined = BulletGamesOf(res_this)

Colours == {"white", "black"}

\* A field of the game is missing: end_time, a colour entry, a username, a result.
MissingField(g) ==
    \/ "end_time" \notin DOMAIN g
    \/ \E c \in Colours :
         \/ c \notin DOMAIN g
         \/ "username" \notin DOMAIN g[c]
         \/ "result" \notin DOMAIN g[c]

\* The tracked player is neither the white nor the black participant.
UnknownColour(g) ==
    /\ ~MissingField(g)
    /\ \A c \in Colours : Lower(g[c].username) # Lower(Me)

\* C3: a game with a missing field or an unknown colour mapping is skipped: the
\* loop's pass over it leaves the daily mapping as it was.
MalformedGameSkipped ==
    [][ (/\ pc = "extract"
         /\ gi <= Len(games_combined)
         /\ (MissingField(games_combined[gi]) \/ UnknownColour(games_combined[gi])))
        => daily' = daily ]_vars

\* The counts of a date in a daily mapping, zero when the date has no row.
CountsOn(d, date) ==
    IF \E i \in 1..Len(d) : d[i].date = date
    THEN LET i == CHOOSE i \in 1..Len(d) : d[i].date = date
         IN  <<d[i].games, d[i].wins>>
    ELSE <<0, 0>>

DatesOf(d) == {d[i].date : i \in 1..Len(d)}

\* The side of the tracked player (username equal ignoring case) has result "win".
PerspectiveWon(g) ==
    \E c \in Colours :
        /\ c \in DOMAIN g
        /\ "username" \in DOMAIN g[c]
        /\ "result" \in DOMAIN g[c]
        /\ Lower(g[c].username) = Lower(Me)
        /\ g[c].result = "win"

\* C4: a game that is not skipped adds one to the games of the row of the UTC
\* date of its end_time and changes no other row; it adds one to that row's wins
\* iff the tracked player's side has result "win".
CountedGameAttributed ==
    [][ (pc = "extract" /\ gi <= Len(games_combined) /\ daily' # daily) =>
          LET g == games_combined[gi]
          IN  \E date \in DatesOf(daily') :
                /\ date * 86400 <= g.end_time
                /\ g.end_time < (date + 1) * 86400
                /\ CountsOn(daily', date)[1] = CountsOn(daily, date)[1] + 1
                /\ CountsOn(daily', date)[2] =
                     CountsOn(daily, date)[2] + (IF PerspectiveWon(g) THEN 1 ELSE 0)
                /\ \A other \in (DatesOf(daily) \cup DatesOf(daily')) \ {date} :
                     CountsOn(daily', other) = CountsOn(daily, other) ]_vars

\* 100 * w / g rounded to one decimal place, in tenths: the nearest integer to
\* 1000 * w / g, a tie going to the even one (as round() does).
RoundedTenths(w, g) ==
    LET q == (1000 * w) \div g
        r == (1000 * w) % g
    IN  IF 2 * r > g \/ (2 * r = g /\ q % 2 = 1) THEN q + 1 ELSE q

\* C5: the win rate of every row is round(100 * wins / games, 1).
WinRateIsRounded ==
    \A i \in 1..Len(df) : df[i].WinRate = RoundedTenths(df[i].Wins, df[i].Games)

\* C6: a row's flag is Overuse iff its games exceed 6, and the bar of its day is
\* red iff its flag is Overuse.
OveruseFlagAndColour ==
    /\ \A i \in 1..Len(df) :
         /\ df[i].Flag \in {"Overuse", "OK"}
         /\ df[i].Flag = "Overuse" <=> df[i].Games > 6
    /\ (FigureBuilt /\ df # <<>>) =>
         /\ Len(fig.bar.marker_color) = Len(df)
         /\ \A i \in 1..Len(df) :
              /\ fig.bar.x[i] = df[i].Date
              /\ fig.bar.y[i] = df[i].Games
              /\ fig.bar.marker_color[i] \in {"red", "green"}
              /\ fig.bar.marker_color[i] = "red" <=> df[i].Flag = "Overuse"

\* The figure holds a day of 7 games, flagged Overuse and drawn red.
OveruseWitness ==
    /\ FigureBuilt
    /\ df # <<>>
    /\ \E i \in 1..Len(df) :
         /\ df[i].Games = 7
         /\ df[i].Flag = "Overuse"
         /\ fig.bar.marker_color[i] = "red"

\* C7: the chart's rows are strictly ascending by date, one per date of the
\* daily mapping, and the table's rows are the same rows in the reverse order.
ChartAscendingTableDescending ==
    /\ FrameBuilt =>
         /\ Len(df) = Len(daily)
         /\ {df[i].Date : i \in 1..Len(df)} = DatesOf(daily)
         /\ \A i \in 1..(Len(df) - 1) : df[i].Date < df[i + 1].Date
    /\ (FigureBuilt /\ df # <<>>) =>
         /\ Len(fig.bar.x) = Len(df)
         /\ \A i \in 1..(Len(df) - 1) : fig.bar.x[i] < fig.bar.x[i + 1]
         /\ fig.scatter.x = fig.bar.x
    /\ (TableBuilt /\ df # <<>>) =>
         /\ Len(table_html.rows) = Len(df)
         /\ \A i \in 1..Len(df) : table_html.rows[i] = df[Len(df) + 1 - i]
         /\ \A i \in 1..(Len(df) - 1) :
              table_html.rows[i].Date > table_html.rows[i + 1].Date

\* Three days that entered the mapping latest first, charted and tabled.
OrderWitness ==
    /\ pc = "done"
    /\ Len(daily) = 3
    /\ daily[1].date > daily[2].date
    /\ daily[2].date > daily[3].date
    /\ Len(table_html.rows) = 3

\* C8: with no rows the frame is empty, the chart is titled as no games found,
\* the table is the placeholder, and the script reaches the write with both.
EmptyStillRendered ==
    /\ (FrameBuilt /\ daily = <<>>) => df = <<>>
    /\ (FigureBuilt /\ df = <<>>) => fig = [title |-> "No Bullet Games Found"]
    /\ (TableBuilt /\ df = <<>>) => table_html = [placeholder |-> "<p>No data available.</p>"]
    /\ (pc = "done" /\ df = <<>>) =>
         /\ file.exists
         /\ file.content.chart.title = "No Bullet Games Found"
         /\ file.content.table.placeholder = "<p>No data available.</p>"
    /\ pc = "aborted" => WriteAttempted

\* Games were fetched, every one of them was skipped, and the document exists.
EmptyWitness ==
    /\ pc = "done"
    /\ games_combined # <<>>
    /\ daily = <<>>
    /\ file.exists
    /\ file.content.table = [placeholder |-> "<p>No data available.</p>"]

\* C9: the previous month is the calendar month right before the current one,
\* its month number in 1..12.
PreviousMonthIsPrior ==
    pc # "months" =>
        /\ this_month = <<today.year, today.month>>
        /\ last_month[2] \in 1..12
        /\ 12 * last_month[1] + last_month[2] + 1 = 12 * this_month[1] + this_month[2]

\* A run in January has December of the year before as its previous month.
JanuaryWitness ==
    /\ pc = "fetch_last"
    /\ today.month = 1
    /\ last_month = <<today.year - 1, 12>>

FullOrder == <<"fetch_last", "fetch_this", "aggregate", "plot", "table", "write">>

IsPrefix(a, b) == Len(a) <= Len(b) /\ \A i \in 1..Len(a) : a[i] = b[i]

\* C10: the steps happen in the order fetch previous month, fetch current
\* month, aggregate, render (plot, table), write; the write is attempted once,
\* in every run; a run ends without a document only when the write failed.
PipelineRunsToWrite ==
    /\ [](IsPrefix(steps, FullOrder))
    /\ [](pc = "aborted" => steps = FullOrder)
    /\ [](pc = "done" => (steps = FullOrder /\ file.exists))
    /\ <>(steps = FullOrder)

\* Both fetches failed and the write failed after them.
PipelineWitness ==
    /\ pc = "aborted"
    /\ steps = FullOrder
    /\ FetchFailed(res_last)
    /\ FetchFailed(res_this)
    /\ ~file.exists
====
